---- MODULE Spec2Model ----
(***************************************************************************)
(* Research pipeline of Advanced-Agent: the plan / search / validate /     *)
(* synthesize graph of search_agent.py, the search-tool fan-out            *)
(* (call_search_tools), the page-fetch fan-out (fetch_page), and the two   *)
(* entry points of app.py: the event stream (event_generator) and the      *)
(* one-shot endpoint (research).                                           *)
(***************************************************************************)
EXTENDS Integers, Sequences, FiniteSets, TLC

VARIABLES
    pc,                  \* node about to run / phase of the function under study
    plan,                \* ResearchState.plan
    remaining_subtopics, \* ResearchState.remaining_subtopics
    depth,               \* ResearchState.depth
    max_depth,           \* ResearchState.max_depth
    extracted_notes,     \* ResearchState.extracted_notes : seq of <<url, text>>
    validated_notes,     \* ResearchState.validated_notes
    validated_sources,   \* ResearchState.validated_sources
    final_report,        \* ResearchState.final_report
    trace,               \* history: names of the nodes executed so far, in order
    toolResults,         \* call_search_tools: `results` of asyncio.gather, one slot per tool
    searchReturn,        \* call_search_tools: value returned (or the raise)
    fetchUrls,           \* search_node: `urls` handed to the fetch fan-out
    pages,               \* what each HTTP GET of the fan-out did
    fetchResults,        \* search_node: `results` of asyncio.gather over fetch_page
    exc,                 \* the exception that aborted the run and the node that raised it
    request,             \* app.py: the request (topic, mode) being served
    events,              \* event_generator: the events yielded so far
    response,            \* research: what the endpoint answered
    query,               \* call_search_tools: the query of the last call
    runs,                \* two requests served at once: each run's position, locals, inputs
    objs                 \* two requests served at once: the ResearchState objects

vars == <<pc, plan, remaining_subtopics, depth, max_depth, extracted_notes,
          validated_notes, validated_sources, final_report, trace,
          toolResults, searchReturn, fetchUrls, pages, fetchResults,
          exc, request, events, response, query, runs, objs>>

stateVars == <<plan, remaining_subtopics, depth, max_depth, extracted_notes,
               validated_notes, validated_sources, final_report>>
toolVars  == <<toolResults, searchReturn, query>>
fetchVars == <<fetchUrls, pages, fetchResults>>
appVars   == <<request, events, response, runs, objs>>

----------------------------------------------------------------------------
(* Bounds *)
MaxSubtopics == 2      \* longest subtopic list the planner returns
MaxDepthReq  == 2      \* largest depth_required the planner returns
MaxNotes     == 2      \* cap on Len(extracted_notes) in a pipeline run
MaxScan      == 3      \* most extracted_notes validate_node scans when studied in isolation
MaxToolHits  == 2      \* most (text, url) hits one search tool returns
MaxUrls      == 2      \* most urls of one fetch fan-out studied in isolation
MaxCalls     == 2      \* validate_node calls in succession
MaxReportLen == 3      \* longest final_report whose claims are studied

Subtopics == {"s1", "s2"}
URLS      == {"u1", "u2"}
TEXTS     == {"a", "b"}
NotePairs == URLS \X TEXTS

\* Python strings that the code inspects are sequences of characters.
EmptyStr == <<>>
Reports  == {EmptyStr, <<"a">>}

SeqsUpTo(S, n) == UNION {[1..k -> S] : k \in 0..n}

None   == <<>>            \* Python None (falsy)
Truthy(s) == s # EmptyStr /\ s # None   \* `if s:` / `not s` on an Optional[str]
Raised == <<"raise">>     \* an exception leaving a coroutine of a plain gather

----------------------------------------------------------------------------
(* Helpers on sequences *)
RECURSIVE SelectNotNone(_)
SelectNotNone(s) ==
    IF s = <<>> THEN <<>>
    ELSE IF Head(s) # None THEN <<Head(s)>> \o SelectNotNone(Tail(s))
         ELSE SelectNotNone(Tail(s))

NoDup(s) == \A i, j \in 1..Len(s) : s[i] = s[j] => i = j

IsPrefix(s, t) == Len(s) <= Len(t) /\ SubSeq(t, 1, Len(s)) = s

Count(s, x) == Cardinality({i \in 1..Len(s) : s[i] = x})

Min(a, b) == IF a < b THEN a ELSE b
Max(a, b) == IF a > b THEN a ELSE b

----------------------------------------------------------------------------
(* search_tools and call_search_tools (search_agent.py 35-65) *)
search_tools == <<"search_tavily", "search_ddgs", "search_wiki", "arxiv_search">>

NumTools == Len(search_tools)

\* One (text, url) hit of a search tool; a tool's texts and urls are built
\* from the same result list, so they are index-aligned.
Hits == {<<"t1", "u1">>, <<"t2", "u2">>}

ToolOk(hits) == [kind  |-> "ok",
                 texts |-> [i \in 1..Len(hits) |-> hits[i][1]],
                 urls  |-> [i \in 1..Len(hits) |-> hits[i][2]]]
ToolPending   == [kind |-> "pending",   texts |-> <<>>, urls |-> <<>>]
ToolRaise     == [kind |-> "raise",     texts |-> <<>>, urls |-> <<>>]
ToolMalformed == [kind |-> "malformed", texts |-> <<>>, urls |-> <<>>]

\* What run_tool(tool) can leave in its gather slot: the exception it
\* raised, a value that is not a (texts, urls) pair, or a (texts, urls) pair.
ToolOutcomes ==
    {ToolRaise, ToolMalformed} \cup {ToolOk(h) : h \in SeqsUpTo(Hits, MaxToolHits)}

\* The loop of lines 56-65 over the gathered results, in slot order.
RECURSIVE MergeResults(_, _, _)
MergeResults(results, texts, urls) ==
    IF results = <<>> THEN [raised |-> FALSE, texts |-> texts, urls |-> urls]
    ELSE LET res == Head(results) IN
         IF res.kind = "raise"                      \* isinstance(res, Exception): continue
         THEN MergeResults(Tail(results), texts, urls)
         ELSE IF res.kind = "malformed"             \* t, u = res raises
         THEN [raised |-> TRUE, texts |-> <<>>, urls |-> <<>>]
         ELSE MergeResults(Tail(results), texts \o res.texts, urls \o res.urls)

\* Variant: gather without return_exceptions, the first raising tool fails the call.
call_search_tools_propagate(results) ==
    IF \E i \in 1..Len(results) : results[i].kind = "raise"
    THEN [raised |-> TRUE, texts |-> <<>>, urls |-> <<>>]
    ELSE MergeResults(results, <<>>, <<>>)

\* Variant: the gathered results are walked from the last slot to the first.
call_search_tools_reversed(results) ==
    MergeResults([i \in 1..Len(results) |-> results[Len(results) + 1 - i]], <<>>, <<>>)

call_search_tools(results) == MergeResults(results, <<>>, <<>>)

NotCalled == [raised |-> FALSE, texts |-> <<>>, urls |-> <<>>]
NoQuery   == ""           \* call_search_tools has not been called
NoRuns    == <<>>         \* a single request is being served

----------------------------------------------------------------------------
(* fetch_page (utils/__init__.py 28-37) *)
\* What one session.get does: it raises (timeout after 6 s, transport
\* error), or answers with a status and a page whose extracted text is text.
FetchOutcomes ==
    {[exc |-> e, status |-> 0, text |-> ""] : e \in {"timeout", "transport"}}
    \cup {[exc |-> "none", status |-> s, text |-> t] : s \in {200, 404}, t \in {""} \cup TEXTS}

PagePending  == [exc |-> "pending", status |-> 0, text |-> ""]
FetchPending == <<"pending">>

\* Variant: no try/except, a failing GET leaves the coroutine as an exception.
fetch_page_no_except(url, o) ==
    IF o.exc # "none" THEN Raised
    ELSE IF o.status = 200
         THEN IF o.text # "" THEN <<url, o.text>> ELSE None
         ELSE None

\* Variant: the status of the response is not looked at.
fetch_page_any_status(url, o) ==
    IF o.exc # "none" THEN None
    ELSE IF o.text # "" THEN <<url, o.text>> ELSE None

fetch_page(url, o) ==
    IF o.exc # "none" THEN None                     \* except Exception: return None
    ELSE IF o.status = 200
         THEN IF o.text # "" THEN <<url, o.text>> ELSE None
         ELSE None

\* Line 96 of search_node: gather (without return_exceptions) over fetch_page
\* yields the results in list order, or re-raises what a coroutine raised.
GatherFetch(urls, outs) == [i \in 1..Len(urls) |-> fetch_page(urls[i], outs[i])]

FetchRaised(results) == \E i \in 1..Len(results) : results[i] = Raised

\* Lines 98-100 of search_node: keep the truthy results, in list order.
\* Variants: the new results are put in front of the notes; the new results
\* are appended last-first.
AppendResults_prepend(notes, results) == SelectNotNone(results) \o notes
AppendResults_reversed(notes, results) ==
    notes \o SelectNotNone([i \in 1..Len(results) |-> results[Len(results) + 1 - i]])

AppendResults(notes, results) == notes \o SelectNotNone(results)

----------------------------------------------------------------------------
(* validate_node (search_agent.py 105-114) *)
RECURSIVE ValidateScan(_, _, _, _)
ValidateScan(notes, seen, vnotes, vsources) ==
    IF notes = <<>> THEN [notes |-> vnotes, sources |-> vsources]
    ELSE LET url  == Head(notes)[1]
             note == Head(notes)[2]
         IN  IF note \notin seen
             THEN ValidateScan(Tail(notes), seen \cup {note},
                               Append(vnotes, note), Append(vsources, url))
             ELSE ValidateScan(Tail(notes), seen, vnotes, vsources)

\* Variant: the source url is appended for every scanned note, seen or not.
RECURSIVE ValidateScanAllSources(_, _, _, _)
ValidateScanAllSources(notes, seen, vnotes, vsources) ==
    IF notes = <<>> THEN [notes |-> vnotes, sources |-> vsources]
    ELSE LET url  == Head(notes)[1]
             note == Head(notes)[2]
         IN  IF note \notin seen
             THEN ValidateScanAllSources(Tail(notes), seen \cup {note},
                                         Append(vnotes, note), Append(vsources, url))
             ELSE ValidateScanAllSources(Tail(notes), seen, vnotes, Append(vsources, url))

validate_node_all_sources(enotes, vnotes, vsources) ==
    ValidateScanAllSources(enotes, {}, vnotes, vsources)

\* Variant: seen holds the urls, a note is kept when its url is new.
RECURSIVE ValidateScanByUrl(_, _, _, _)
ValidateScanByUrl(notes, seen, vnotes, vsources) ==
    IF notes = <<>> THEN [notes |-> vnotes, sources |-> vsources]
    ELSE LET url  == Head(notes)[1]
             note == Head(notes)[2]
         IN  IF url \notin seen
             THEN ValidateScanByUrl(Tail(notes), seen \cup {url},
                                    Append(vnotes, note), Append(vsources, url))
             ELSE ValidateScanByUrl(Tail(notes), seen, vnotes, vsources)

validate_node_by_url(enotes, vnotes, vsources) ==
    ValidateScanByUrl(enotes, {}, vnotes, vsources)

\* Variant: the sources are the distinct urls of the scanned notes, collected
\* on their own.
RECURSIVE DistinctInOrder(_, _)
DistinctInOrder(s, seen) ==
    IF s = <<>> THEN <<>>
    ELSE IF Head(s) \in seen THEN DistinctInOrder(Tail(s), seen)
         ELSE <<Head(s)>> \o DistinctInOrder(Tail(s), seen \cup {Head(s)})

validate_node_distinct_urls(enotes, vnotes, vsources) ==
    [notes   |-> ValidateScan(enotes, {}, vnotes, vsources).notes,
     sources |-> vsources \o DistinctInOrder([i \in 1..Len(enotes) |-> enotes[i][1]], {})]

\* seen starts empty on every call; the appends go to the lists of the state.
validate_node(enotes, vnotes, vsources) == ValidateScan(enotes, {}, vnotes, vsources)

(* should_continue (search_agent.py 140-144) *)
\* Variants of the guard: off by one on depth, depth only, queue only.
should_continue_le(d, md, remaining) == d <= md /\ Len(remaining) > 0
should_continue_depth_only(d, md, remaining) == d < md
should_continue_queue_only(d, md, remaining) == Len(remaining) > 0
\* Variant: either condition keeps the loop going.
should_continue_or(d, md, remaining) == d < md \/ Len(remaining) > 0

should_continue(d, md, remaining) == d < md /\ Len(remaining) > 0

(* add_edge / add_conditional_edges of create_graph_agent (160-172) *)
\* Variant: search wired straight to synthesize.
Edge_search_to_synthesize(node, state_continue) ==
    CASE node = "plan"       -> "search"
      [] node = "search"     -> "synthesize"
      [] node = "validate"   -> IF state_continue THEN "search" ELSE "synthesize"
      [] node = "synthesize" -> "end"

\* Variant: plan wired straight to synthesize.
Edge_plan_to_synthesize(node, state_continue) ==
    CASE node = "plan"       -> "synthesize"
      [] node = "search"     -> "validate"
      [] node = "validate"   -> IF state_continue THEN "search" ELSE "synthesize"
      [] node = "synthesize" -> "end"

Edge(node, state_continue) ==
    CASE node = "plan"       -> "search"
      [] node = "search"     -> "validate"
      [] node = "validate"   -> IF state_continue THEN "search" ELSE "synthesize"
      [] node = "synthesize" -> "end"

----------------------------------------------------------------------------
(* The compiled graph (search_agent.py 150-174), one action per node *)

\* Tool and page behaviours drawn in a pipeline run.
PipeToolOutcomes  == {o \in ToolOutcomes : Len(o.urls) <= 1}
PipeSearchReturns == {call_search_tools(r) : r \in [1..NumTools -> PipeToolOutcomes]}
PipeFetchOutcomes == {o \in FetchOutcomes : o.exc = "timeout" \/ (o.status = 200 /\ o.text # "")}

DepthChoices == (0 - 1)..MaxDepthReq

\* What the one-shot endpoint answers: a success record or a named error.
NoResponse ==
    [kind |-> "none", error |-> "", plan |-> <<>>, validated_notes |-> <<>>,
     validated_sources |-> <<>>, final_report |-> EmptyStr]

\* Exceptions: a Python type and a message, the message a sequence of words.
NoExc == [node |-> "none", type |-> "none", msg |-> <<>>]

Raise(node, e) == [node |-> node, type |-> e.type, msg |-> e.msg]

\* `t, u = res` on a value that is not a pair (search_agent.py 61).
UnpackError == [type |-> "TypeError", msg |-> <<"cannot", "unpack">>]
\* What a fetch_page coroutine would raise if it let a failure through.
FetchError  == [type |-> "TimeoutError", msg |-> <<>>]

\* A failing LLM call in a run whose caller does not look at the exception.
PipeExceptions == {[type |-> "ValueError", msg |-> <<"quota">>]}

Init ==
    /\ pc = "plan"
    /\ plan = <<>>
    /\ remaining_subtopics = <<>>
    /\ depth = 0
    /\ max_depth = 1
    /\ extracted_notes = <<>>
    /\ validated_notes = <<>>
    /\ validated_sources = <<>>
    /\ final_report = EmptyStr
    /\ trace = <<>>
    /\ toolResults = <<>>
    /\ searchReturn = NotCalled
    /\ fetchUrls = <<>>
    /\ pages = <<>>
    /\ fetchResults = <<>>
    /\ exc = NoExc
    /\ request = [topic |-> <<"q">>, mode |-> "shallow"]
    /\ events = <<>>
    /\ response = NoResponse
    /\ query = NoQuery /\ runs = NoRuns /\ objs = NoRuns

\* A node that raises aborts the run; its update is not written.
Abort ==
    /\ pc' = "aborted"
    /\ UNCHANGED <<stateVars, trace>>

\* The ResearchPlan values the planner returns (schema 31-35; the two
\* requires_* flags are never read).
Plans == [subtopics : SeqsUpTo(Subtopics, MaxSubtopics), depth_required : DepthChoices]

\* plan_node, the planner returning one of plans or failing with one of excs.
PlanNode(plans, excs) ==
    /\ pc = "plan"
    /\ \/ \E p \in plans :
            /\ plan' = p.subtopics
            /\ remaining_subtopics' = p.subtopics
            /\ max_depth' = p.depth_required
            /\ pc' = Edge("plan", FALSE)
            /\ trace' = Append(trace, "plan")
            /\ UNCHANGED <<depth, extracted_notes, validated_notes,
                           validated_sources, final_report, exc>>
       \/ \E e \in excs :                           \* planner.invoke raises
            /\ Abort
            /\ exc' = Raise("plan", e)
    /\ UNCHANGED <<toolVars, fetchVars>>

\* Line 90 of search_node, remaining_subtopics.pop(0): the element removed
\* and what is left.
\* Variants: pop() removes the last element; the front element is read
\* and left in the queue.
PopFront_peek(remaining) == [subtopic |-> Head(remaining), rest |-> remaining]

PopFront_last(remaining) ==
    [subtopic |-> remaining[Len(remaining)],
     rest     |-> SubSeq(remaining, 1, Len(remaining) - 1)]

PopFront(remaining) == [subtopic |-> Head(remaining), rest |-> Tail(remaining)]

\* Line 80 of plan_node gives remaining_subtopics a copy of the planner's
\* list, so the pop of line 90 leaves plan as it is; rest is the queue after
\* the pop.
\* Variant: no copy, plan and remaining_subtopics are one list.
PlanAfterPop_aliased(p, rest) == rest

PlanAfterPop(p, rest) == p

\* Lines 86-87 of search_node: nothing left to search, the state is returned
\* as it is.
\* Variant: depth is counted before the test.
SearchNoop_counts ==
    /\ depth' = depth + 1
    /\ pc' = Edge("search", FALSE)
    /\ trace' = Append(trace, "search")
    /\ UNCHANGED <<plan, remaining_subtopics, max_depth, extracted_notes,
                   validated_notes, validated_sources, final_report, exc>>
    /\ UNCHANGED <<toolVars, fetchVars>>

SearchNoop ==
    /\ pc' = Edge("search", FALSE)
    /\ trace' = Append(trace, "search")
    /\ UNCHANGED <<stateVars, exc>>
    /\ UNCHANGED <<toolVars, fetchVars>>

\* Lines 89-102 of search_node, call_search_tools returning one of returns
\* and every page fetch behaving as one of fouts; with rec the query, the
\* urls and the fetches of the step are kept in toolVars / fetchVars.
SearchFanout(returns, fouts, rec) ==
    LET popped == PopFront(remaining_subtopics) IN
    \E ret \in returns :
      IF ret.raised
      THEN Abort /\ exc' = Raise("search", UnpackError)
                 /\ UNCHANGED <<toolVars, fetchVars>>
      ELSE \E outs \in [1..Len(ret.urls) -> fouts] :
             LET results == GatherFetch(ret.urls, outs) IN
             IF FetchRaised(results)
             THEN Abort /\ exc' = Raise("search", FetchError)
                        /\ UNCHANGED <<toolVars, fetchVars>>
             ELSE
             /\ depth' = depth + 1
             /\ remaining_subtopics' = popped.rest
             /\ plan' = PlanAfterPop(plan, popped.rest)
             /\ extracted_notes' = AppendResults(extracted_notes, results)
             /\ Len(extracted_notes') <= MaxNotes
             /\ pc' = Edge("search", FALSE)
             /\ trace' = Append(trace, "search")
             /\ UNCHANGED <<max_depth, validated_notes,
                            validated_sources, final_report, exc>>
             /\ IF rec
                THEN /\ query' = popped.subtopic
                     /\ searchReturn' = ret
                     /\ fetchUrls' = ret.urls
                     /\ pages' = outs
                     /\ fetchResults' = results
                     /\ UNCHANGED toolResults
                ELSE UNCHANGED <<toolVars, fetchVars>>

\* search_node
SearchNode(returns, fouts) ==
    /\ pc = "search"
    /\ IF remaining_subtopics = <<>>
       THEN SearchNoop
       ELSE SearchFanout(returns, fouts, FALSE)

\* validate_node followed by the conditional edge on should_continue.
ValidateNode ==
    /\ pc = "validate"
    /\ LET v == validate_node(extracted_notes, validated_notes, validated_sources) IN
         /\ validated_notes' = v.notes
         /\ validated_sources' = v.sources
    /\ pc' = Edge("validate", should_continue(depth, max_depth, remaining_subtopics))
    /\ trace' = Append(trace, "validate")
    /\ UNCHANGED <<plan, remaining_subtopics, depth, max_depth, extracted_notes,
                   final_report, exc>>
    /\ UNCHANGED <<toolVars, fetchVars>>

\* synthesize_node, the synthesizer answering one of reports or failing with
\* one of excs.
SynthesizeNode(reports, excs) ==
    /\ pc = "synthesize"
    /\ \/ \E r \in reports :
            /\ final_report' = r
            /\ pc' = Edge("synthesize", FALSE)
            /\ trace' = Append(trace, "synthesize")
            /\ UNCHANGED <<plan, remaining_subtopics, depth, max_depth,
                           extracted_notes, validated_notes, validated_sources, exc>>
       \/ \E e \in excs :                           \* synthesizer.ainvoke raises
            /\ Abort
            /\ exc' = Raise("synthesize", e)
    /\ UNCHANGED <<toolVars, fetchVars>>

\* The graph run on its own (research_agent.astream of main).
Plan       == PlanNode(Plans, PipeExceptions) /\ UNCHANGED appVars
Search     == SearchNode(PipeSearchReturns, PipeFetchOutcomes) /\ UNCHANGED appVars
Validate   == ValidateNode /\ UNCHANGED appVars
Synthesize == SynthesizeNode(Reports, PipeExceptions) /\ UNCHANGED appVars

Next == Plan \/ Search \/ Validate \/ Synthesize

Spec == Init /\ [][Next]_vars

----------------------------------------------------------------------------
(* A run whose LLM calls succeed while search tools raise and page fetches  *)
(* fail at will.  Every node returns in finite time, hence the fairness.    *)
FlakyToolOutcomes  == {o \in PipeToolOutcomes : o.kind \in {"raise", "ok"}}
FlakySearchReturns == {call_search_tools(r) : r \in [1..NumTools -> FlakyToolOutcomes]}
FlakyFetchOutcomes ==
    {o \in FetchOutcomes : \/ o.exc # "none"
                           \/ (o.status = 404 /\ o.text = "")
                           \/ (o.status = 200 /\ o.text = "a")}

FlakyPlan       == PlanNode(Plans, {}) /\ UNCHANGED appVars
FlakySearch     == SearchNode(FlakySearchReturns, FlakyFetchOutcomes) /\ UNCHANGED appVars
FlakyValidate   == ValidateNode /\ UNCHANGED appVars
FlakySynthesize == SynthesizeNode(Reports, {}) /\ UNCHANGED appVars

NextFlaky == FlakyPlan \/ FlakySearch \/ FlakyValidate \/ FlakySynthesize

SpecFlaky == Init /\ [][NextFlaky]_vars /\ WF_vars(NextFlaky)

----------------------------------------------------------------------------
(* A run whose planner may ask for a depth beyond any plan it returns, and  *)
(* whose collaborators return or fail at will.  Every call returns or fails *)
(* in finite time, hence the fairness.                                      *)
LargeDepth == MaxSubtopics + MaxDepthReq + 1

TermPlans ==
    [subtopics : SeqsUpTo(Subtopics, MaxSubtopics),
     depth_required : DepthChoices \cup {LargeDepth}]
TermToolOutcomes  == {ToolRaise, ToolMalformed, ToolOk(<< <<"t1", "u1">> >>)}
TermSearchReturns == {call_search_tools(r) : r \in [1..NumTools -> TermToolOutcomes]}
TermFetchOutcomes == {o \in FetchOutcomes : o.exc = "timeout" \/ (o.status = 200 /\ o.text = "a")}

TermPlan       == PlanNode(TermPlans, PipeExceptions) /\ UNCHANGED appVars
TermSearch     == SearchNode(TermSearchReturns, TermFetchOutcomes) /\ UNCHANGED appVars
TermValidate   == ValidateNode /\ UNCHANGED appVars
TermSynthesize == SynthesizeNode(Reports, PipeExceptions) /\ UNCHANGED appVars

NextTerm == TermPlan \/ TermSearch \/ TermValidate \/ TermSynthesize

SpecTerm == Init /\ [][NextTerm]_vars /\ WF_vars(NextTerm)

----------------------------------------------------------------------------
(* String operations used by app.py *)
LF         == "LF"                 \* the line-feed character
Whitespace == {" ", LF}

RECURSIVE LStrip(_, _)
LStrip(s, chars) ==
    IF s # <<>> /\ Head(s) \in chars THEN LStrip(Tail(s), chars) ELSE s

RECURSIVE RStrip(_, _)
RStrip(s, chars) ==
    IF s # <<>> /\ s[Len(s)] \in chars THEN RStrip(SubSeq(s, 1, Len(s) - 1), chars) ELSE s

\* str.strip(chars) and str.strip()
StripChars(s, chars) == RStrip(LStrip(s, chars), chars)
Strip(s) == StripChars(s, Whitespace)

\* str.split(sep): the pieces between non-overlapping occurrences of sep,
\* scanning from the left; cur is the piece being read.
RECURSIVE SplitFrom(_, _, _)
SplitFrom(s, sep, cur) ==
    IF s = <<>> THEN <<cur>>
    ELSE IF Len(s) >= Len(sep) /\ SubSeq(s, 1, Len(sep)) = sep
         THEN <<cur>> \o SplitFrom(SubSeq(s, Len(sep) + 1, Len(s)), sep, <<>>)
         ELSE SplitFrom(Tail(s), sep, Append(cur, Head(s)))

Split(s, sep) == SplitFrom(s, sep, <<>>)

Take(s, n) == SubSeq(s, 1, Min(n, Len(s)))          \* s[:n]

\* The separator written in app.py 241 is "\\n": a backslash followed by n.
ReportSep == <<"\\", "n">>

\* The claims comprehension of app.py 233-243 over enumerate(lines), i the
\* index of Head(lines); id i stands for f"CL-{i}".
RECURSIVE ClaimsFrom(_, _)
ClaimsFrom(lines, i) ==
    IF lines = <<>> THEN <<>>
    ELSE (IF Strip(Head(lines)) # EmptyStr
          THEN <<[id |-> i, statement |-> StripChars(Head(lines), {"-", " "})]>>
          ELSE <<>>)
         \o ClaimsFrom(Tail(lines), i + 1)

ClaimsOf(report) == ClaimsFrom(Take(Split(report, ReportSep), 3), 0)

----------------------------------------------------------------------------
(* event_generator (app.py 208-257) *)
NoEventFields ==
    [event_type |-> "", agent |-> "", payload |-> <<>>, claims |-> <<>>,
     final_report |-> EmptyStr, sources |-> 0, detail |-> NoExc]

LogEvent == [NoEventFields EXCEPT !.event_type = "log"]

\* str.capitalize() on the node names of the graph.
Capitalize(node) ==
    CASE node = "plan"       -> "Plan"
      [] node = "search"     -> "Search"
      [] node = "validate"   -> "Validate"
      [] node = "synthesize" -> "Synthesize"

\* Variant: every node's event carries the subtopics.
StepPayload_every_node(node, planValue) == <<planValue>>

\* payload is {"subtopics": plan} for the plan node and {} otherwise: the
\* sequence of the values it holds.
StepPayload(node, planValue) == IF node = "plan" THEN <<planValue>> ELSE <<>>

AgentStep(node, planValue) ==
    [NoEventFields EXCEPT !.event_type = "agent_step",
                          !.agent = Capitalize(node),
                          !.payload = StepPayload(node, planValue)]

FinalResult(report, sources) ==
    [NoEventFields EXCEPT !.event_type = "final_result",
                          !.claims = ClaimsOf(report),
                          !.final_report = report,
                          !.sources = Len(sources)]

ErrorEvent(e) == [NoEventFields EXCEPT !.event_type = "error", !.detail = e]

\* Variant: the final_result is yielded whatever final_report holds.
LoopEvents_unconditional(node, planValue, report, sources) ==
    <<AgentStep(node, planValue), FinalResult(report, sources)>>

\* What one round of the `async for` yields for the update of node: the
\* agent_step, then a final_result when final_report is truthy.
LoopEvents(node, planValue, report, sources) ==
    <<AgentStep(node, planValue)>>
    \o (IF Truthy(report) THEN <<FinalResult(report, sources)>> ELSE <<>>)

\* Variant: no except clause, nothing is yielded when the run raises.
ExceptEvents_none(e) == <<>>

\* What the except clause yields when the run raised e.
ExceptEvents(e) == <<ErrorEvent(e)>>

\* Requests reaching the entry points.
Topics   == {EmptyStr, <<" ">>, <<"q">>}
Modes    == {"shallow", "deep", "fast"}
Requests == [topic : Topics, mode : Modes]

\* ResearchState(topic=query, mode=mode): mode is a Literal, topic any str.
ValidState(req) == req.mode \in {"shallow", "deep"}

ValidationError == [type |-> "ValidationError", msg |-> <<"mode">>]

\* The runs an event stream is studied on.
StreamPlans ==
    {p \in Plans : p.depth_required \in {1, 2}
                   /\ p.subtopics \in {<<>>, <<"s1">>, <<"s1", "s2">>}}
StreamToolOutcomes  == {ToolRaise, ToolMalformed, ToolOk(<< <<"t1", "u1">> >>)}
StreamSearchReturns == {call_search_tools(r) : r \in [1..NumTools -> StreamToolOutcomes]}
StreamFetchOutcomes == {o \in FetchOutcomes : o.exc = "timeout" \/ (o.status = 200 /\ o.text = "a")}
StreamReports       == {EmptyStr, <<"a">>, <<LF, "a">>, <<"a", LF, "-", "a">>}

InitStream ==
    /\ pc = "start"
    /\ request \in Requests
    /\ plan = <<>> /\ remaining_subtopics = <<>> /\ depth = 0 /\ max_depth = 1
    /\ extracted_notes = <<>> /\ validated_notes = <<>> /\ validated_sources = <<>>
    /\ final_report = EmptyStr /\ trace = <<>>
    /\ toolResults = <<>> /\ searchReturn = NotCalled
    /\ fetchUrls = <<>> /\ pages = <<>> /\ fetchResults = <<>>
    /\ exc = NoExc /\ events = <<>> /\ response = NoResponse
    /\ query = NoQuery /\ runs = NoRuns /\ objs = NoRuns

\* Lines 210-214: build the state, then yield the log event.
StreamStart ==
    /\ pc = "start"
    /\ IF ValidState(request)
       THEN /\ events' = Append(events, LogEvent)
            /\ pc' = "plan"
            /\ UNCHANGED exc
       ELSE /\ exc' = Raise("start", ValidationError)
            /\ events' = events \o ExceptEvents(exc')
            /\ pc' = "aborted"
    /\ UNCHANGED <<stateVars, trace, toolVars, fetchVars, request, response, runs, objs>>

\* One round of `async for event in research_agent.astream(state)` after
\* node ran, or the except clause when node raised.
Yield(node) ==
    /\ events' = events \o (IF pc' = "aborted"
                            THEN ExceptEvents(exc')
                            ELSE LoopEvents(node, plan', final_report', validated_sources'))
    /\ UNCHANGED <<request, response, runs, objs>>

StreamPlan       == PlanNode(StreamPlans, PipeExceptions) /\ Yield("plan")
StreamSearch     == SearchNode(StreamSearchReturns, StreamFetchOutcomes) /\ Yield("search")
StreamValidate   == ValidateNode /\ Yield("validate")
StreamSynthesize == SynthesizeNode(StreamReports, PipeExceptions) /\ Yield("synthesize")

NextStream ==
    StreamStart \/ StreamPlan \/ StreamSearch \/ StreamValidate \/ StreamSynthesize

SpecStream == InitStream /\ [][NextStream]_vars

----------------------------------------------------------------------------
(* research, the one-shot endpoint (app.py 276-327) *)
ErrorResponse(name) == [NoResponse EXCEPT !.kind = "error", !.error = name]

SuccessResponse(planValue, vnotes, vsources, report) ==
    [kind |-> "success", error |-> "", plan |-> planValue, validated_notes |-> vnotes,
     validated_sources |-> vsources, final_report |-> report]

\* str.lower() on the words an exception message is made of.
Lower(w) ==
    CASE w = "Search"     -> "search"
      [] w = "Research"   -> "research"
      [] w = "DDGS"       -> "ddgs"
      [] w = "Synthesize" -> "synthesize"
      [] OTHER            -> w

\* `kw in word` for the keywords tested and the words messages are made of:
\* a keyword occurs in itself, and "search" also occurs in "research".
OccursIn(kw, word) == kw = word \/ (kw = "search" /\ word = "research")

\* `kw in str(e).lower()`
InMessage(kw, msg) == \E i \in 1..Len(msg) : OccursIn(kw, Lower(msg[i]))

\* Variant: "ddgs" is not among the search keywords.
MapException_no_ddgs(e) ==
    IF e.type \in {"ConnectionError", "TimeoutError"} THEN "LLMProviderError"
    ELSE IF e.type = "RuntimeError" THEN "AgentUnavailableError"
    ELSE IF InMessage("search", e.msg) \/ InMessage("tavily", e.msg)
         THEN "SearchToolError"
    ELSE IF InMessage("synthesis", e.msg) \/ InMessage("synthesize", e.msg)
         THEN "SynthesisError"
    ELSE "InternalServerError"

\* Variant: the synthesis keywords are tested before the search keywords.
MapException_synthesis_first(e) ==
    IF e.type \in {"ConnectionError", "TimeoutError"} THEN "LLMProviderError"
    ELSE IF e.type = "RuntimeError" THEN "AgentUnavailableError"
    ELSE IF InMessage("synthesis", e.msg) \/ InMessage("synthesize", e.msg)
         THEN "SynthesisError"
    ELSE IF InMessage("search", e.msg) \/ InMessage("tavily", e.msg) \/ InMessage("ddgs", e.msg)
         THEN "SearchToolError"
    ELSE "InternalServerError"

\* The except clauses of lines 296-311, in order.
MapException(e) ==
    IF e.type \in {"ConnectionError", "TimeoutError"} THEN "LLMProviderError"
    ELSE IF e.type = "RuntimeError" THEN "AgentUnavailableError"
    ELSE IF InMessage("search", e.msg) \/ InMessage("tavily", e.msg) \/ InMessage("ddgs", e.msg)
         THEN "SearchToolError"
    ELSE IF InMessage("synthesis", e.msg) \/ InMessage("synthesize", e.msg)
         THEN "SynthesisError"
    ELSE "InternalServerError"

\* Variant: the empty-report test of line 313 is missing.
ResearchResult_no_report_check(e, planValue, vnotes, vsources, report) ==
    IF e # NoExc THEN ErrorResponse(MapException(e))
    ELSE SuccessResponse(planValue, vnotes, vsources, report)

\* Lines 296-327: what research answers once ainvoke raised e or returned.
ResearchResult(e, planValue, vnotes, vsources, report) ==
    IF e # NoExc THEN ErrorResponse(MapException(e))
    ELSE IF ~Truthy(report) THEN ErrorResponse("SynthesisError")
    ELSE SuccessResponse(planValue, vnotes, vsources, report)

\* Exceptions an LLM call raises.
ExcTypes == {"ConnectionError", "TimeoutError", "RuntimeError", "ValueError"}
Messages ==
    {<<>>, <<"quota">>, <<"Search", "quota">>, <<"Research">>, <<"tavily">>, <<"DDGS">>,
     <<"synthesis">>, <<"Synthesize">>, <<"search", "synthesis">>}
LLMExceptions == [type : ExcTypes, msg : Messages]

InitOneShot ==
    /\ pc = "start"
    /\ request \in Requests
    /\ plan = <<>> /\ remaining_subtopics = <<>> /\ depth = 0 /\ max_depth = 1
    /\ extracted_notes = <<>> /\ validated_notes = <<>> /\ validated_sources = <<>>
    /\ final_report = EmptyStr /\ trace = <<>>
    /\ toolResults = <<>> /\ searchReturn = NotCalled
    /\ fetchUrls = <<>> /\ pages = <<>> /\ fetchResults = <<>>
    /\ exc = NoExc /\ events = <<>> /\ response = NoResponse
    /\ query = NoQuery /\ runs = NoRuns /\ objs = NoRuns

\* APIInput validation (schema 53-56) and the query test of lines 282-283.
Receive ==
    /\ pc = "start"
    /\ IF request.mode \notin {"shallow", "deep"}
       THEN /\ response' = ErrorResponse("RequestValidationError")
            /\ pc' = "rejected"
       ELSE IF ~Truthy(request.topic) \/ ~Truthy(Strip(request.topic))
       THEN /\ response' = ErrorResponse("MissingQueryError")
            /\ pc' = "rejected"
       ELSE /\ pc' = "plan"
            /\ UNCHANGED response
    /\ UNCHANGED <<stateVars, trace, toolVars, fetchVars, exc, request, events, runs, objs>>

\* research_agent.ainvoke(initial_state), node by node.
OneShotPlan       == PlanNode(StreamPlans, LLMExceptions) /\ UNCHANGED appVars
OneShotSearch     == SearchNode(StreamSearchReturns, StreamFetchOutcomes) /\ UNCHANGED appVars
OneShotValidate   == ValidateNode /\ UNCHANGED appVars
OneShotSynthesize == SynthesizeNode(StreamReports, LLMExceptions) /\ UNCHANGED appVars

Respond ==
    /\ pc \in {"end", "aborted"}
    /\ response' = ResearchResult(exc, plan, validated_notes, validated_sources, final_report)
    /\ pc' = "responded"
    /\ UNCHANGED <<stateVars, trace, toolVars, fetchVars, exc, request, events, runs, objs>>

NextOneShot ==
    Receive \/ OneShotPlan \/ OneShotSearch \/ OneShotValidate \/ OneShotSynthesize \/ Respond

SpecOneShot == InitOneShot /\ [][NextOneShot]_vars

----------------------------------------------------------------------------
(* The final_result of one report: the round of the loop that follows the   *)
(* synthesize node, for every report text.                                  *)
ReportChars == {LF, "\\", "n", "-", "a"}

InitClaims ==
    /\ pc = "report"
    /\ final_report \in SeqsUpTo(ReportChars, MaxReportLen) \ {EmptyStr}
    /\ plan = <<>> /\ remaining_subtopics = <<>> /\ depth = 0 /\ max_depth = 1
    /\ extracted_notes = <<>> /\ validated_notes = <<>> /\ validated_sources = <<>>
    /\ trace = <<>>
    /\ toolResults = <<>> /\ searchReturn = NotCalled
    /\ fetchUrls = <<>> /\ pages = <<>> /\ fetchResults = <<>>
    /\ exc = NoExc /\ request = [topic |-> <<"q">>, mode |-> "shallow"]
    /\ events = <<>> /\ response = NoResponse
    /\ query = NoQuery /\ runs = NoRuns /\ objs = NoRuns

EmitFinal ==
    /\ pc = "report"
    /\ events' = events \o LoopEvents("synthesize", plan, final_report, validated_sources)
    /\ pc' = "emitted"
    /\ UNCHANGED <<stateVars, trace, toolVars, fetchVars, exc, request, response, runs, objs>>

NextClaims == EmitFinal

SpecClaims == InitClaims /\ [][NextClaims]_vars

----------------------------------------------------------------------------
(* Two requests served at once by the one module-level research_agent: the  *)
(* event loop runs one coroutine at a time and switches at the awaits of    *)
(* search_node (call_search_tools, the fetch gather) and of synthesize_node *)
(* (synthesizer.ainvoke).  runs[r] is the position, the locals and the      *)
(* collaborator answers of request r; objs holds the ResearchState objects. *)
RunIds == {1, 2}

TopicOf(r) == IF r = 1 THEN <<"q">> ELSE <<"r">>

\* ResearchState(topic=..., mode=...) with the defaults of schema 13-24.
NewState(topic) ==
    [topic |-> topic, plan |-> <<>>, remaining_subtopics |-> <<>>, depth |-> 0,
     max_depth |-> 1, extracted_notes |-> <<>>, validated_notes |-> <<>>,
     validated_sources |-> <<>>, final_report |-> EmptyStr]

\* The ResearchState the nodes of request r work on: the one constructed for
\* that request (app.py 212, 288).
\* Variant: one module-level state serves every request.
StateOf_module_level(r) == 1

StateOf(r) == r

NoLog == [plan |-> <<>>, max_depth |-> 1, searches |-> <<>>, report |-> EmptyStr]

ConcPlans ==
    {p \in Plans : p.depth_required \in {1, 2} /\ p.subtopics \in {<<"s1">>, <<"s1", "s2">>}}
ConcToolOutcomes  == {ToolRaise, ToolOk(<< <<"t1", "u1">> >>)}
ConcSearchReturns ==
    {ret \in {call_search_tools(r) : r \in [1..NumTools -> ConcToolOutcomes]} :
        Len(ret.urls) <= 1}
ConcFetchOutcomes == {o \in FetchOutcomes : o.exc = "timeout" \/ (o.status = 200 /\ o.text = "a")}
ConcReports       == {<<"a">>}

InitConc ==
    /\ runs = [r \in RunIds |->
                 [pc |-> "start", subtopic |-> NoQuery, urls |-> <<>>, log |-> NoLog,
                  returned |-> NewState(EmptyStr)]]
    /\ objs = [r \in RunIds |-> NewState(EmptyStr)]
    /\ pc = "serving"
    /\ plan = <<>> /\ remaining_subtopics = <<>> /\ depth = 0 /\ max_depth = 1
    /\ extracted_notes = <<>> /\ validated_notes = <<>> /\ validated_sources = <<>>
    /\ final_report = EmptyStr /\ trace = <<>>
    /\ toolResults = <<>> /\ searchReturn = NotCalled /\ query = NoQuery
    /\ fetchUrls = <<>> /\ pages = <<>> /\ fetchResults = <<>>
    /\ exc = NoExc /\ request = [topic |-> <<"q">>, mode |-> "shallow"]
    /\ events = <<>> /\ response = NoResponse

ConcFrame == UNCHANGED <<pc, stateVars, trace, toolVars, fetchVars, exc, request, events, response>>

\* The request arrives and its ResearchState is constructed.
ConcStart(r) ==
    /\ runs[r].pc = "start"
    /\ objs' = [objs EXCEPT ![StateOf(r)] = NewState(TopicOf(r))]
    /\ runs' = [runs EXCEPT ![r].pc = "plan"]
    /\ ConcFrame

\* plan_node: planner.invoke is a blocking call, nothing runs in between.
ConcPlan(r) ==
    /\ runs[r].pc = "plan"
    /\ \E p \in ConcPlans :
         /\ objs' = [objs EXCEPT ![StateOf(r)].plan = p.subtopics,
                                 ![StateOf(r)].remaining_subtopics = p.subtopics,
                                 ![StateOf(r)].max_depth = p.depth_required]
         /\ runs' = [runs EXCEPT ![r].pc = Edge("plan", FALSE),
                                 ![r].log.plan = p.subtopics,
                                 ![r].log.max_depth = p.depth_required]
    /\ ConcFrame

\* search_node up to `await call_search_tools(subtopic)` (lines 86-92).
ConcSearchEnter(r) ==
    /\ runs[r].pc = "search"
    /\ LET st == objs[StateOf(r)] IN
       IF st.remaining_subtopics = <<>>
       THEN /\ runs' = [runs EXCEPT ![r].pc = Edge("search", FALSE)]
            /\ UNCHANGED objs
       ELSE LET popped == PopFront(st.remaining_subtopics) IN
            /\ objs' = [objs EXCEPT ![StateOf(r)].depth = st.depth + 1,
                                    ![StateOf(r)].remaining_subtopics = popped.rest]
            /\ runs' = [runs EXCEPT ![r].pc = "search_tools",
                                    ![r].subtopic = popped.subtopic]
    /\ ConcFrame

\* call_search_tools returns; the fetch tasks are created and awaited (92-96).
ConcSearchTools(r) ==
    /\ runs[r].pc = "search_tools"
    /\ \E ret \in ConcSearchReturns :
         runs' = [runs EXCEPT ![r].pc = "search_fetch", ![r].urls = ret.urls]
    /\ UNCHANGED objs
    /\ ConcFrame

\* The gather over fetch_page returns and the pages are appended (96-102).
ConcSearchFetch(r) ==
    /\ runs[r].pc = "search_fetch"
    /\ \E outs \in [1..Len(runs[r].urls) -> ConcFetchOutcomes] :
         LET results == GatherFetch(runs[r].urls, outs) IN
         /\ objs' = [objs EXCEPT ![StateOf(r)].extracted_notes =
                                    AppendResults(objs[StateOf(r)].extracted_notes, results)]
         /\ runs' = [runs EXCEPT ![r].pc = Edge("search", FALSE),
                                 ![r].urls = <<>>,
                                 ![r].subtopic = NoQuery,
                                 ![r].log.searches =
                                    Append(@, [subtopic |-> runs[r].subtopic,
                                               urls |-> runs[r].urls, outs |-> outs])]
    /\ ConcFrame

\* validate_node (no await inside) and the conditional edge.
ConcValidate(r) ==
    /\ runs[r].pc = "validate"
    /\ LET st == objs[StateOf(r)]
           v  == validate_node(st.extracted_notes, st.validated_notes, st.validated_sources)
       IN  /\ objs' = [objs EXCEPT ![StateOf(r)].validated_notes = v.notes,
                                   ![StateOf(r)].validated_sources = v.sources]
           /\ runs' = [runs EXCEPT ![r].pc =
                          Edge("validate",
                               should_continue(st.depth, st.max_depth, st.remaining_subtopics))]
    /\ ConcFrame

\* synthesize_node up to `await synthesizer.ainvoke(...)` (lines 118-130).
ConcSynthesizeCall(r) ==
    /\ runs[r].pc = "synthesize"
    /\ runs' = [runs EXCEPT ![r].pc = "synthesizing"]
    /\ UNCHANGED objs
    /\ ConcFrame

\* The synthesizer answers, final_report is set and the run returns its state.
ConcSynthesizeReturn(r) ==
    /\ runs[r].pc = "synthesizing"
    /\ \E rep \in ConcReports :
         /\ objs' = [objs EXCEPT ![StateOf(r)].final_report = rep]
         /\ runs' = [runs EXCEPT ![r].pc = Edge("synthesize", FALSE),
                                 ![r].log.report = rep,
                                 ![r].returned = objs'[StateOf(r)]]
    /\ ConcFrame

NextConc ==
    \E r \in RunIds :
        \/ ConcStart(r) \/ ConcPlan(r)
        \/ ConcSearchEnter(r) \/ ConcSearchTools(r) \/ ConcSearchFetch(r)
        \/ ConcValidate(r)
        \/ ConcSynthesizeCall(r) \/ ConcSynthesizeReturn(r)

SpecConc == InitConc /\ [][NextConc]_vars

----------------------------------------------------------------------------
(* search_node on its own, entered as the graph enters it: from plan, or    *)
(* from validate when should_continue holds; the query, urls and fetches of *)
(* the step are kept.                                                       *)
InitSearch ==
    /\ pc = "search"
    /\ plan \in SeqsUpTo(Subtopics, MaxSubtopics)
    /\ max_depth \in DepthChoices
    /\ depth \in 0..Len(plan)
    /\ remaining_subtopics = SubSeq(plan, depth + 1, Len(plan))
    /\ depth > 0 => should_continue(depth, max_depth, remaining_subtopics)
    /\ extracted_notes \in SeqsUpTo(NotePairs, 1)
    /\ depth = 0 => extracted_notes = <<>>
    /\ validated_notes = validate_node(extracted_notes, <<>>, <<>>).notes
    /\ validated_sources = validate_node(extracted_notes, <<>>, <<>>).sources
    /\ final_report = EmptyStr /\ trace = <<>>
    /\ toolResults = <<>> /\ searchReturn = NotCalled
    /\ fetchUrls = <<>> /\ pages = <<>> /\ fetchResults = <<>>
    /\ exc = NoExc /\ request = [topic |-> <<"q">>, mode |-> "shallow"]
    /\ events = <<>> /\ response = NoResponse
    /\ query = NoQuery /\ runs = NoRuns /\ objs = NoRuns

SearchStep ==
    /\ pc = "search"
    /\ IF remaining_subtopics = <<>>
       THEN SearchNoop
       ELSE SearchFanout(PipeSearchReturns, PipeFetchOutcomes, TRUE)
    /\ UNCHANGED appVars

NextSearch == SearchStep

SpecSearch == InitSearch /\ [][NextSearch]_vars

----------------------------------------------------------------------------
(* validate_node called repeatedly on one state, nothing else running *)
InitValidate ==
    /\ pc = "validate"
    /\ extracted_notes \in SeqsUpTo(NotePairs, MaxScan)
    /\ validated_notes = <<>>
    /\ validated_sources = <<>>
    /\ plan = <<>> /\ remaining_subtopics = <<>> /\ depth = 0 /\ max_depth = 1
    /\ final_report = EmptyStr /\ trace = <<>>
    /\ toolResults = <<>> /\ searchReturn = NotCalled
    /\ fetchUrls = <<>> /\ pages = <<>> /\ fetchResults = <<>>
    /\ exc = NoExc /\ request = [topic |-> <<"q">>, mode |-> "shallow"]
    /\ events = <<>> /\ response = NoResponse
    /\ query = NoQuery /\ runs = NoRuns /\ objs = NoRuns

ValidateCall ==
    /\ pc = "validate"
    /\ Len(trace) < MaxCalls
    /\ LET v == validate_node(extracted_notes, validated_notes, validated_sources) IN
         /\ validated_notes' = v.notes
         /\ validated_sources' = v.sources
    /\ trace' = Append(trace, "validate")
    /\ UNCHANGED <<pc, plan, remaining_subtopics, depth, max_depth, extracted_notes,
                   final_report>>
    /\ UNCHANGED <<toolVars, fetchVars, exc, appVars>>

NextValidate == ValidateCall

SpecValidate == InitValidate /\ [][NextValidate]_vars

----------------------------------------------------------------------------
(* call_search_tools on its own: the four run_tool coroutines finish in any *)
(* order, gather stores each outcome in the slot of its tool, then the loop *)
(* of lines 56-65 merges the slots.                                         *)
InitTools ==
    /\ pc = "gather"
    /\ toolResults = [i \in 1..NumTools |-> ToolPending]
    /\ searchReturn = NotCalled
    /\ plan = <<>> /\ remaining_subtopics = <<>> /\ depth = 0 /\ max_depth = 1
    /\ extracted_notes = <<>> /\ validated_notes = <<>> /\ validated_sources = <<>>
    /\ final_report = EmptyStr /\ trace = <<>>
    /\ fetchUrls = <<>> /\ pages = <<>> /\ fetchResults = <<>>
    /\ exc = NoExc /\ request = [topic |-> <<"q">>, mode |-> "shallow"]
    /\ events = <<>> /\ response = NoResponse
    /\ query = NoQuery /\ runs = NoRuns /\ objs = NoRuns

ToolCompletes ==
    /\ pc = "gather"
    /\ \E i \in 1..NumTools, o \in ToolOutcomes :
         /\ toolResults[i] = ToolPending
         /\ toolResults' = [toolResults EXCEPT ![i] = o]
    /\ UNCHANGED <<pc, searchReturn, query, stateVars, trace, fetchVars, exc, appVars>>

MergeTools ==
    /\ pc = "gather"
    /\ \A i \in 1..NumTools : toolResults[i] # ToolPending
    /\ searchReturn' = call_search_tools(toolResults)
    /\ pc' = IF searchReturn'.raised THEN "raised" ELSE "returned"
    /\ UNCHANGED <<toolResults, query, stateVars, trace, fetchVars, exc, appVars>>

NextTools == ToolCompletes \/ MergeTools

SpecTools == InitTools /\ [][NextTools]_vars

----------------------------------------------------------------------------
(* call_search_tools with the order in which the tools finish kept in       *)
(* trace; every tool raises or returns one or two hits.                     *)
OrderOutcomes ==
    {ToolRaise, ToolOk(<< <<"t1", "u1">> >>), ToolOk(<< <<"t2", "u2">>, <<"t1", "u1">> >>)}

ToolCompletesInOrder ==
    /\ pc = "gather"
    /\ \E i \in 1..NumTools, o \in OrderOutcomes :
         /\ toolResults[i] = ToolPending
         /\ toolResults' = [toolResults EXCEPT ![i] = o]
         /\ trace' = Append(trace, search_tools[i])
    /\ UNCHANGED <<pc, searchReturn, query, stateVars, fetchVars, exc, appVars>>

NextToolOrder == ToolCompletesInOrder \/ MergeTools

SpecToolOrder == InitTools /\ [][NextToolOrder]_vars

----------------------------------------------------------------------------
(* The fetch fan-out of search_node (lines 94-100) on its own: the          *)
(* fetch_page coroutines finish in any order, then the results are appended *)
(* to extracted_notes.                                                      *)
InitFetch ==
    /\ pc = "fetching"
    /\ fetchUrls \in SeqsUpTo(URLS, MaxUrls)
    /\ pages = [i \in 1..Len(fetchUrls) |-> PagePending]
    /\ fetchResults = [i \in 1..Len(fetchUrls) |-> FetchPending]
    /\ extracted_notes \in SeqsUpTo(NotePairs, 1)
    /\ plan = <<>> /\ remaining_subtopics = <<>> /\ depth = 0 /\ max_depth = 1
    /\ validated_notes = <<>> /\ validated_sources = <<>>
    /\ final_report = EmptyStr /\ trace = <<>>
    /\ toolResults = <<>> /\ searchReturn = NotCalled
    /\ exc = NoExc /\ request = [topic |-> <<"q">>, mode |-> "shallow"]
    /\ events = <<>> /\ response = NoResponse
    /\ query = NoQuery /\ runs = NoRuns /\ objs = NoRuns

FetchCompletes ==
    /\ pc = "fetching"
    /\ \E i \in 1..Len(fetchUrls), o \in FetchOutcomes :
         /\ pages[i] = PagePending
         /\ pages' = [pages EXCEPT ![i] = o]
         /\ fetchResults' = [fetchResults EXCEPT ![i] = fetch_page(fetchUrls[i], o)]
    /\ UNCHANGED <<pc, fetchUrls, stateVars, trace, toolVars, exc, appVars>>

Aggregate ==
    /\ pc = "fetching"
    /\ \A i \in 1..Len(fetchUrls) : pages[i] # PagePending
    /\ IF FetchRaised(fetchResults)
       THEN /\ pc' = "raised"
            /\ UNCHANGED extracted_notes
       ELSE /\ pc' = "fetched"
            /\ extracted_notes' = AppendResults(extracted_notes, fetchResults)
    /\ UNCHANGED <<plan, remaining_subtopics, depth, max_depth, validated_notes,
                   validated_sources, final_report, trace, fetchVars, toolVars,
                   exc, appVars>>

NextFetch == FetchCompletes \/ Aggregate

SpecFetch == InitFetch /\ [][NextFetch]_vars

\* The same fan-out with the order in which the fetches finish kept in
\* trace (positions in the url list); every fetch times out or answers 200
\* with text.
OrderFetchOutcomes ==
    {o \in FetchOutcomes : o.exc = "timeout" \/ (o.status = 200 /\ o.text # "")}

FetchCompletesInOrder ==
    /\ pc = "fetching"
    /\ \E i \in 1..Len(fetchUrls), o \in OrderFetchOutcomes :
         /\ pages[i] = PagePending
         /\ pages' = [pages EXCEPT ![i] = o]
         /\ fetchResults' = [fetchResults EXCEPT ![i] = fetch_page(fetchUrls[i], o)]
         /\ trace' = Append(trace, i)
    /\ UNCHANGED <<pc, fetchUrls, stateVars, toolVars, exc, appVars>>

NextFetchOrder == FetchCompletesInOrder \/ Aggregate

SpecFetchOrder == InitFetch /\ [][NextFetchOrder]_vars

----------------------------------------------------------------------------
(* Properties *)

Last(s) == s[Len(s)]

\* C1: a second validate_node call with no new extracted_notes leaves
\* validated_notes and validated_sources as the first call left them.
C1_ValidateIdempotent ==
    [][Len(trace) >= 1 =>
         (validated_notes' = validated_notes /\ validated_sources' = validated_sources)]_vars

C3_Alignment == Len(validated_notes) = Len(validated_sources)

C3_Witness ==
    /\ Count(trace, "validate") = 2
    /\ Len(validated_notes) >= 2
    /\ Len(extracted_notes) > Cardinality({extracted_notes[i][2] : i \in 1..Len(extracted_notes)})

\* C4: the validated_notes handed to Synthesize hold no note text twice.
C4_Deduplicated == pc = "synthesize" => NoDup(validated_notes)

\* C5: after each Validate the next node is Search iff depth < max_depth and
\* remaining_subtopics is non-empty in the state after that Validate, and
\* Synthesize otherwise.
C5_Routing ==
    [][pc = "validate" =>
         /\ pc' \in {"search", "synthesize"}
         /\ pc' = "search" <=> (depth' < max_depth' /\ remaining_subtopics' # <<>>)]_vars

C5_Witness ==
    /\ pc = "search"
    /\ trace # <<>> /\ Last(trace) = "validate"
    /\ depth < max_depth /\ remaining_subtopics # <<>>

\* C6: the executed nodes of a run that does not abort form
\* Plan, (Search, Validate)+, Synthesize: Plan once and first, every Search
\* immediately followed by a Validate, Synthesize once and last.
C6_NodeOrder ==
    /\ \A i \in 1..Len(trace) :
         /\ trace[i] = "plan" <=> i = 1
         /\ trace[i] = "search" =>
              IF i < Len(trace) THEN trace[i + 1] = "validate" ELSE pc = "validate"
         /\ trace[i] = "validate" => (i > 1 /\ trace[i - 1] = "search")
         /\ trace[i] = "synthesize" =>
              (i = Len(trace) /\ pc = "end" /\ i > 1 /\ trace[i - 1] = "validate")
    /\ pc = "end" => (Len(trace) >= 4 /\ Last(trace) = "synthesize")
    /\ pc = "synthesize" => (trace # <<>> /\ Last(trace) = "validate")
    /\ pc = "search" => (trace # <<>> /\ Last(trace) \in {"plan", "validate"})
    /\ pc = "plan" => trace = <<>>

C6_Witness ==
    /\ pc = "end"
    /\ trace = <<"plan", "search", "validate", "search", "validate", "synthesize">>

\* C7: with a non-empty plan of k subtopics and depth_required d >= 1 the run
\* performs exactly min(d, k) Search/Validate cycles and ends with
\* remaining_subtopics = plan without its first min(d, k) elements.
C7_CycleCount ==
    (pc \in {"synthesize", "end"} /\ plan # <<>> /\ max_depth >= 1) =>
        LET n == Min(max_depth, Len(plan)) IN
        /\ Count(trace, "search") = n
        /\ Count(trace, "validate") = n
        /\ remaining_subtopics = SubSeq(plan, n + 1, Len(plan))

C7_Witness ==
    /\ pc = "end"
    /\ max_depth = 1
    /\ plan = <<"s1", "s2">>
    /\ remaining_subtopics = <<"s2">>
    /\ Count(trace, "search") = 1

\* The texts / urls of tool i as call_search_tools should merge them when
\* failed tools are dropped.
ToolTexts(i) == IF toolResults[i].kind = "ok" THEN toolResults[i].texts ELSE <<>>
ToolUrls(i)  == IF toolResults[i].kind = "ok" THEN toolResults[i].urls ELSE <<>>

MergedAsSpecified ==
    /\ pc = "returned"
    /\ searchReturn.texts = ToolTexts(1) \o ToolTexts(2) \o ToolTexts(3) \o ToolTexts(4)
    /\ searchReturn.urls = ToolUrls(1) \o ToolUrls(2) \o ToolUrls(3) \o ToolUrls(4)

\* C8: whichever tools raise, call_search_tools does not raise and returns
\* the concatenation of the (texts, urls) of the tools that returned; two
\* empty sequences when all raise.
C8_PartialFailure ==
    (/\ pc \in {"returned", "raised"}
     /\ \A i \in 1..NumTools : toolResults[i].kind \in {"ok", "raise"})
    => MergedAsSpecified

C8_Witness ==
    /\ pc = "returned"
    /\ Cardinality({i \in 1..NumTools : toolResults[i].kind = "raise"}) = 3
    /\ searchReturn.urls # <<>>

C8_WitnessAllRaise ==
    /\ pc = "returned"
    /\ \A i \in 1..NumTools : toolResults[i].kind = "raise"
    /\ searchReturn.texts = <<>> /\ searchReturn.urls = <<>>

\* C9: a tool whose return value is not a (texts, urls) pair is dropped like
\* a failed tool: the call does not raise and the other tools' results are
\* returned.
C9_MalformedDropped ==
    (/\ pc \in {"returned", "raised"}
     /\ \E i \in 1..NumTools : toolResults[i].kind = "malformed")
    => MergedAsSpecified

\* The (url, text) pairs of the fetches that answered 200 with non-empty
\* extracted text, from position i on, in url-list order.
RECURSIVE SucceededPairs(_)
SucceededPairs(i) ==
    IF i > Len(fetchUrls) THEN <<>>
    ELSE (IF pages[i].exc = "none" /\ pages[i].status = 200 /\ pages[i].text # ""
          THEN << <<fetchUrls[i], pages[i].text>> >> ELSE <<>>)
         \o SucceededPairs(i + 1)

LastNode == IF trace = <<>> THEN "none" ELSE Last(trace)

C11_NeverAborts ==
    /\ [](pc # "aborted")
    /\ (pc = "validate") ~> (pc # "validate" /\ LastNode = "validate")
    /\ <>(pc = "end" /\ LastNode = "synthesize")

C11_Witness ==
    /\ pc = "end"
    /\ Count(trace, "search") = 2
    /\ extracted_notes = <<>>
    /\ validated_notes = <<>>

\* C12: when the stream is over its last event is a final_result or an
\* error, whatever the run did.
C12_TerminalEvent ==
    pc \in {"end", "aborted"} =>
        (events # <<>> /\ Last(events).event_type \in {"final_result", "error"})

EventsOfType(t) == {i \in 1..Len(events) : events[i].event_type = t}

\* C13: when a node raises the generator yields exactly one error event,
\* as its last event, after which nothing runs; the events yielded before are
\* kept as they were.
C13_ErrorTerminal ==
    [][/\ pc # "aborted"
       /\ IsPrefix(events, events')
       /\ pc' = "aborted" =>
            /\ trace' = trace
            /\ Len(events') = Len(events) + 1
            /\ events'[Len(events')].event_type = "error"
            /\ Cardinality({i \in 1..Len(events') : events'[i].event_type = "error"}) = 1
       /\ pc' # "aborted" =>
            {i \in 1..Len(events') : events'[i].event_type = "error"} = {}]_vars

C13_Witness ==
    /\ pc = "aborted"
    /\ exc.node = "synthesize"
    /\ Len(events) >= 5
    /\ Last(events).event_type = "error"

C13_WitnessSearch ==
    /\ pc = "aborted"
    /\ exc.node = "search"
    /\ Last(events).event_type = "error"

AgentSteps == SelectSeq(events, LAMBDA e : e.event_type = "agent_step")

\* C14: the agent_step events are one per executed node, in execution order,
\* each naming its node; the Plan event carries the planned subtopics, the
\* others an empty payload.
C14_OneStepPerNode ==
    /\ Len(AgentSteps) = Len(trace)
    /\ \A i \in 1..Len(AgentSteps) :
         /\ <<trace[i], AgentSteps[i].agent>> \in
              {<<"plan", "Plan">>, <<"search", "Search">>,
               <<"validate", "Validate">>, <<"synthesize", "Synthesize">>}
         /\ AgentSteps[i].payload = (IF trace[i] = "plan" THEN <<plan>> ELSE <<>>)

C14_Witness ==
    /\ pc = "end"
    /\ Len(trace) = 6
    /\ plan = <<"s1", "s2">>
    /\ Len(AgentSteps) = 6

\* C15: a stream holds at most one final_result; it comes right after the
\* agent_step of Synthesize and carries the whole final_report of the run.
C15_FinalResult ==
    /\ Cardinality(EventsOfType("final_result")) <= 1
    /\ \A i \in EventsOfType("final_result") :
         /\ i > 1
         /\ events[i - 1].event_type = "agent_step"
         /\ events[i - 1].agent = "Synthesize"
         /\ events[i].final_report = final_report
         /\ final_report # EmptyStr

C15_Witness ==
    /\ pc = "end"
    /\ Last(events).event_type = "final_result"
    /\ Len(Last(events).final_report) >= 2

\* The first three non-blank lines of a report, numbered from 0.
NonBlankLines(report) == SelectSeq(Split(report, <<LF>>), LAMBDA l : Strip(l) # EmptyStr)

FirstThreeClaims(report) ==
    LET lines == Take(NonBlankLines(report), 3) IN
    [i \in 1..Len(lines) |->
        [id |-> i - 1, statement |-> StripChars(lines[i], {"-", " "})]]

\* C16: the claims of the final_result are the first three non-blank lines of
\* final_report, in order, numbered CL-0, CL-1, CL-2; blank lines take
\* neither a slot nor a number.
C16_Claims ==
    pc = "emitted" => Last(events).claims = FirstThreeClaims(final_report)

\* C20 (streaming entry point): a request with an empty or blank topic or
\* with a mode other than shallow/deep never gets a pipeline node run.
C20_RejectedBeforeCore ==
    (Strip(request.topic) = EmptyStr \/ request.mode \notin {"shallow", "deep"}) =>
        (pc \in {"start", "aborted"} /\ trace = <<>> /\ exc.node \in {"none", "start"})

\* C17: a one-shot run that completes without raising and leaves
\* final_report empty is answered with SynthesisError; a success record is
\* answered only for a non-empty final_report.
C17_EmptyReportFails ==
    /\ response.kind = "success" =>
         (pc = "responded" /\ exc = NoExc /\ final_report # EmptyStr
          /\ response.final_report = final_report)
    /\ (pc = "responded" /\ exc = NoExc /\ final_report = EmptyStr) =>
         (response.kind = "error" /\ response.error = "SynthesisError")

C17_Witness ==
    /\ pc = "responded"
    /\ exc = NoExc
    /\ LastNode = "synthesize"
    /\ validated_notes # <<>>
    /\ final_report = EmptyStr
    /\ response.error = "SynthesisError"

MessageWords == {Lower(exc.msg[i]) : i \in 1..Len(exc.msg)}

FirstOccurrences ==
    {i \in 1..Len(extracted_notes) :
        \A j \in 1..(i - 1) : extracted_notes[j][2] # extracted_notes[i][2]}

KthFirst(k) ==
    CHOOSE i \in FirstOccurrences : Cardinality({j \in FirstOccurrences : j < i}) = k - 1

\* C21: one validate_node call on empty validated lists leaves the distinct
\* note texts in order of first occurrence, each with the url of its first
\* occurrence at the same index.
C21_FirstOccurrenceWins ==
    Len(trace) = 1 =>
        /\ Len(validated_notes) = Cardinality(FirstOccurrences)
        /\ Len(validated_sources) = Cardinality(FirstOccurrences)
        /\ \A k \in 1..Cardinality(FirstOccurrences) :
             /\ validated_notes[k] = extracted_notes[KthFirst(k)][2]
             /\ validated_sources[k] = extracted_notes[KthFirst(k)][1]

C21_Witness ==
    /\ Len(trace) = 1
    /\ extracted_notes = << <<"u1", "a">>, <<"u2", "a">>, <<"u2", "b">> >>
    /\ validated_notes = <<"a", "b">>
    /\ validated_sources = <<"u1", "u2">>

C23_ReportSetOnce ==
    /\ [](pc \in {"plan", "search", "validate"} => final_report = EmptyStr)
    /\ [][final_report' # final_report =>
            /\ pc = "synthesize" /\ pc' = "end"
            /\ final_report = EmptyStr
            /\ LastNode = "validate"
            /\ Count(trace', "synthesize") = 1]_vars

C23_Witness ==
    /\ pc = "end"
    /\ LastNode = "synthesize"
    /\ Count(trace, "validate") = 2
    /\ final_report = <<"a">>

\* C24: every validated note stands, at its index, next to a url under
\* which extracted_notes holds exactly that text.
C24_SourceOfNote ==
    \A i \in 1..Len(validated_notes) :
        /\ i <= Len(validated_sources)
        /\ \E j \in 1..Len(extracted_notes) :
             extracted_notes[j] = <<validated_sources[i], validated_notes[i]>>

C24_Witness ==
    /\ pc = "end"
    /\ extracted_notes = << <<"u1", "a">>, <<"u1", "b">> >>
    /\ validated_notes = <<"a", "b">>
    /\ validated_sources = <<"u1", "u1">>

\* C25: every step leaves extracted_notes, validated_notes and
\* validated_sources with their former value as a prefix.
C25_AppendOnly ==
    [][/\ IsPrefix(extracted_notes, extracted_notes')
       /\ IsPrefix(validated_notes, validated_notes')
       /\ IsPrefix(validated_sources, validated_sources')]_vars

C25_Witness ==
    /\ Count(trace, "search") = 2
    /\ Count(trace, "validate") = 2
    /\ Len(extracted_notes) = 2
    /\ extracted_notes[1] # extracted_notes[2]
    /\ validated_notes = <<extracted_notes[1][2], extracted_notes[1][2], extracted_notes[2][2]>>

\* Where the block of tool i starts in the merged sequences: after the
\* hits of the tools registered before it that returned.
RECURSIVE BlockStart(_)
BlockStart(i) == IF i = 1 THEN 0 ELSE BlockStart(i - 1) + Len(ToolUrls(i - 1))

\* C27: whatever the order in which the tools finish, the merged texts and
\* urls are made of one contiguous block per tool that returned, the blocks
\* in registration order and each in the tool's own order.
C27_RegistrationOrder ==
    pc = "returned" =>
        /\ Len(searchReturn.urls) = BlockStart(NumTools + 1)
        /\ Len(searchReturn.texts) = BlockStart(NumTools + 1)
        /\ \A i \in 1..NumTools : \A k \in 1..Len(ToolUrls(i)) :
             /\ searchReturn.urls[BlockStart(i) + k] = toolResults[i].urls[k]
             /\ searchReturn.texts[BlockStart(i) + k] = toolResults[i].texts[k]

C27_Witness ==
    /\ pc = "returned"
    /\ trace = <<"arxiv_search", "search_wiki", "search_ddgs", "search_tavily">>
    /\ toolResults[1].urls = <<"u1">>
    /\ toolResults[2].urls = <<"u2", "u1">>
    /\ toolResults[3].kind = "raise"
    /\ toolResults[4].urls = <<"u1">>
    /\ searchReturn.urls = <<"u1", "u2", "u1", "u1">>
    /\ searchReturn.texts = <<"t1", "t2", "t1", "t1">>

\* Positions of the url list whose fetch gave a page, and the k-th of them.
KeptFetches == {i \in 1..Len(fetchResults) : fetchResults[i] # None}

KthKept(k) ==
    CHOOSE i \in KeptFetches : Cardinality({j \in KeptFetches : j < i}) = k - 1

\* C28: while a fetch of the step is pending nothing of ResearchState is
\* written; extracted_notes grows only once every fetch has finished, by the
\* pages obtained, in the order of the url list.
C28_AggregateAfterAll ==
    [][/\ (\E i \in 1..Len(fetchUrls) : pages[i] = PagePending) => UNCHANGED stateVars
       /\ extracted_notes' # extracted_notes =>
            /\ \A i \in 1..Len(fetchUrls) : pages[i] # PagePending
            /\ Len(extracted_notes') = Len(extracted_notes) + Cardinality(KeptFetches)
            /\ IsPrefix(extracted_notes, extracted_notes')
            /\ \A k \in 1..Cardinality(KeptFetches) :
                 extracted_notes'[Len(extracted_notes) + k] = fetchResults[KthKept(k)]]_vars

C28_Witness ==
    /\ pc = "fetched"
    /\ trace = <<2, 1>>
    /\ fetchUrls = <<"u1", "u2">>
    /\ extracted_notes = << <<"u2", "b">>, <<"u1", "a">>, <<"u2", "b">> >>

\* C29: search_node entered with remaining_subtopics empty changes no field
\* of ResearchState, calls no search tool and fetches no page.
C29_SearchNoop ==
    [][(pc = "search" /\ remaining_subtopics = <<>>) =>
         /\ pc' = "validate"
         /\ UNCHANGED stateVars
         /\ UNCHANGED <<toolVars, fetchVars>>]_vars

C29_Witness ==
    /\ pc = "validate"
    /\ trace = <<"search">>
    /\ plan = <<>> /\ remaining_subtopics = <<>>
    /\ depth = 0
    /\ query = NoQuery /\ fetchUrls = <<>> /\ extracted_notes = <<>>

\* C30: search_node entered with remaining_subtopics non-empty adds 1 to
\* depth, removes the front subtopic and nothing else from the queue, hands
\* that subtopic to call_search_tools, and leaves plan, max_depth, the
\* validated lists and final_report alone.
C30_SearchPop ==
    [][(pc = "search" /\ remaining_subtopics # <<>> /\ pc' = "validate") =>
         /\ depth' = depth + 1
         /\ remaining_subtopics' = Tail(remaining_subtopics)
         /\ query' = Head(remaining_subtopics)
         /\ UNCHANGED <<plan, max_depth, validated_notes, validated_sources,
                        final_report>>]_vars

C30_Witness ==
    /\ pc = "validate"
    /\ trace = <<"search">>
    /\ plan = <<"s1", "s2">>
    /\ remaining_subtopics = <<"s2">>
    /\ query = "s1"
    /\ depth = 1
    /\ extracted_notes # <<>>

\* A run on its own given the answers its collaborators gave: the search /
\* validate loop from state st with the answers searches still unused.
RECURSIVE LoopAlone(_, _)
LoopAlone(st, searches) ==
    IF st.remaining_subtopics # <<>> /\ searches = <<>> THEN st
    ELSE
    LET noop == st.remaining_subtopics = <<>>
        searched ==
            IF noop THEN st
            ELSE [st EXCEPT
                    !.depth = st.depth + 1,
                    !.remaining_subtopics = Tail(st.remaining_subtopics),
                    !.extracted_notes =
                        st.extracted_notes
                        \o SelectNotNone([i \in 1..Len(Head(searches).urls) |->
                              fetch_page(Head(searches).urls[i], Head(searches).outs[i])])]
        v == ValidateScan(searched.extracted_notes, {},
                          searched.validated_notes, searched.validated_sources)
        validated == [searched EXCEPT !.validated_notes = v.notes,
                                      !.validated_sources = v.sources]
    IN  IF validated.depth < validated.max_depth /\ validated.remaining_subtopics # <<>>
        THEN LoopAlone(validated, IF noop THEN searches ELSE Tail(searches))
        ELSE validated

RunAlone(topic, log) ==
    [LoopAlone([NewState(topic) EXCEPT !.plan = log.plan,
                                       !.remaining_subtopics = log.plan,
                                       !.max_depth = log.max_depth],
               log.searches)
     EXCEPT !.final_report = log.report]

\* C26: of two requests served at once, each returns the state it would
\* return served alone with the same collaborator answers, and each search
\* queried the subtopics of its own plan.
C26_RunsIsolated ==
    \A r \in RunIds :
        runs[r].pc = "end" =>
            /\ runs[r].returned = RunAlone(TopicOf(r), runs[r].log)
            /\ \A i \in 1..Len(runs[r].log.searches) :
                 runs[r].log.searches[i].subtopic = runs[r].log.plan[i]

C26_Witness ==
    /\ runs[1].pc = "end" /\ runs[2].pc = "search_fetch"
    /\ objs[1].plan = <<"s1", "s2">> /\ objs[1].depth = 2
    /\ objs[1].extracted_notes = << <<"u1", "a">> >>
    /\ objs[1].final_report = <<"a">>
    /\ objs[2].topic = <<"r">> /\ objs[2].plan = <<"s1">> /\ objs[2].depth = 1
    /\ objs[2].extracted_notes = <<>>

\* C31: once Plan has run, plan is never written again, remaining_subtopics
\* is plan without its first depth elements, and
\* depth = Len(plan) - Len(remaining_subtopics).
C31_PlanAndQueue ==
    /\ [](trace # <<>> =>
            /\ depth <= Len(plan)
            /\ remaining_subtopics = SubSeq(plan, depth + 1, Len(plan))
            /\ depth = Len(plan) - Len(remaining_subtopics))
    /\ [][trace # <<>> => plan' = plan]_vars

C31_Witness ==
    /\ pc = "validate"
    /\ plan = <<"s2", "s1">>
    /\ depth = 2
    /\ remaining_subtopics = <<>>
    /\ Count(trace, "search") = 2

\* C32: every run ends, by reaching End or by a node raising, whatever
\* max_depth the planner asked for, and Search never runs more than
\* max(1, Len(plan)) times.
C32_Terminates ==
    /\ <>(pc \in {"end", "aborted"})
    /\ [](Count(trace, "search") <= Max(1, Len(plan)))

C32_Witness ==
    /\ pc = "end"
    /\ max_depth = LargeDepth
    /\ plan = <<"s1", "s2">>
    /\ Count(trace, "search") = 2
    /\ depth = 2

====
